---------------------------- MODULE Spec2Model ----------------------------
(***************************************************************************)
(* A model of supervisor.py: the capture rotator (run_tshark), the merge   *)
(* supervisor (supervisor_loop, merge_temp_file, safe_merge,               *)
(* get_first_last_time) and the main control path (main), with the files   *)
(* of TEMP_DIR, TEMP_DIR/split and OUTPUT_DIR as shared state.             *)
(*                                                                         *)
(* Time is a wall clock of whole ticks.  One tick is the resolution of the *)
(* segment name (strftime "%Y%m%d_%H%M%S", line 25); an hour bucket is     *)
(* TicksPerHour ticks.  A frame (event) is named by the tick at which it   *)
(* was captured; at most one frame is captured per tick, so a frame is     *)
(* identified by its timestamp.                                            *)
(*                                                                         *)
(* The external tools are modelled by their interface: tshark -w creates   *)
(* (truncates) its output file and appends frames while it lives; tshark   *)
(* -r lists the frame timestamps of a file; editcap -i either fails with a *)
(* nonzero status or writes one file per hour-aligned piece; mergecap      *)
(* either fails with a nonzero status or writes the combined file.         *)
(***************************************************************************)
EXTENDS Integers, Sequences, FiniteSets, Bags, TLC

\* Bounds of the model.
MaxClock == 2
MaxLaunch == 3
TicksPerHour == 2
MaxRestarts == 1

\* supervisor.py line 13
MERGE_RETRIES == 5

VARIABLES
    clock,        \* datetime.now(), in ticks
    stop_event,   \* line 15: the shared Event
    mainPc,       \* main: "input" (142-149), "joinTshark" (152), "joinSup" (154), "done"
    rotPc,        \* run_tshark: "check" (24), "launch" (25-29), "wait" (30-35), "done"
    temp_file,    \* run_tshark's temp_file: the path of the current capture
    cap,          \* the Popen'ed tshark: "none", "started", "writing", "exited"
    launches,     \* the output paths given to the captures of this run, in launch order
    tempDir,      \* TEMP_DIR/*.pcapng: path -> the set of frames in the file
    splitExists,  \* whether TEMP_DIR/split exists
    splitFiles,   \* TEMP_DIR/split/*: name -> the set of frames in the file
    hourFiles,    \* OUTPUT_DIR/cap_<hour_key>.pcapng: hour_key -> the bag of frames in the file
    supPc,        \* supervisor_loop: "list" (104), "loop" (107-113), "call", "exitcheck" (116), "dead"
    supExc,       \* the exception that ended the supervisor process, or "none"
    files,        \* supervisor_loop's files: the sorted listing of line 104
    idx,          \* position of the for loop of line 109 in files
    processed,    \* supervisor_loop's processed set
    stack,        \* the activations of merge_temp_file, innermost last
    captured,     \* history: every frame a capture has written
    created,      \* history: every path a capture of this run has opened
    handed,       \* history: the paths handed to merge_temp_file by supervisor_loop in this run
    handLog,      \* history: the same paths in the order of the calls, one entry per call
    handedEvents, \* history: the frames of the segments handed to merge_temp_file
    restarts      \* history: how often the program was killed and started again

vars == <<clock, stop_event, mainPc, rotPc, temp_file, cap, launches, tempDir,
          splitExists, splitFiles, hourFiles, supPc, supExc, files, idx, processed,
          stack, captured, created, handed, handLog, handedEvents, restarts>>

-----------------------------------------------------------------------------
\* Helpers

Min(S) == CHOOSE x \in S : \A y \in S : x <= y
Max(S) == CHOOSE x \in S : \A y \in S : x >= y

\* a listing in descending order of names
RECURSIVE ReverseSortedSeq(_)
ReverseSortedSeq(S) == IF S = {} THEN <<>> ELSE <<Max(S)>> \o ReverseSortedSeq(S \ {Max(S)})

\* sorted(...) of a set of names (lines 85, 104)
RECURSIVE SortedSeq(_)
SortedSeq(S) == IF S = {} THEN <<>> ELSE <<Min(S)>> \o SortedSeq(S \ {Min(S)})

\* first_time.strftime("%Y%m%d_%H") (line 91): the hour bucket of a timestamp
HourKey(t) == t \div TicksPerHour

\* dict/dir updates: a function with one key set, and with one key removed
Put(f, k, v) == [x \in DOMAIN f \cup {k} |-> IF x = k THEN v ELSE f[x]]
Drop(f, k) == [x \in DOMAIN f \ {k} |-> f[x]]

-----------------------------------------------------------------------------
\* The files

\* An activation of merge_temp_file(temp_file): the file is TEMP_DIR/<name>
\* (loc "tmp") or TEMP_DIR/split/<name> (loc "split"); key is hour_key;
\* subs is what is left of the loop of line 85; attempt, calls and result
\* are safe_merge's loop variable, its mergecap invocations and its return.
Frame(loc, name) ==
    [loc |-> loc, name |-> name, pc |-> "start", key |-> 0, subs |-> <<>>,
     attempt |-> 0, calls |-> 0, result |-> "none"]

Top == stack[Len(stack)]
Pop == SubSeq(stack, 1, Len(stack) - 1)
SetTop(fr) == [stack EXCEPT ![Len(stack)] = fr]

FileExists(loc, name) ==
    IF loc = "tmp" THEN name \in DOMAIN tempDir ELSE name \in DOMAIN splitFiles

Content(loc, name) == IF loc = "tmp" THEN tempDir[name] ELSE splitFiles[name]

\* The frames held by the files of the working directory and of the split directory
OnDisk ==
    UNION {tempDir[p] : p \in DOMAIN tempDir}
        \cup UNION {splitFiles[n] : n \in DOMAIN splitFiles}

\* The frames held by the aggregate file of hour key h
InHourFile(h) == IF h \in DOMAIN hourFiles THEN BagToSet(hourFiles[h]) ELSE {}

\* get_first_last_time (lines 38-52): <<first, last>>, or <<>> for (None, None)
\* when the file holds no frame or cannot be read
get_first_last_time(loc, name) ==
    IF ~FileExists(loc, name) \/ Content(loc, name) = {}
    THEN <<>>
    ELSE <<Min(Content(loc, name)), Max(Content(loc, name))>>

\* a check that never sees a file span two hours
NeverSpansHours(times) == FALSE

\* line 77: first_time.hour != last_time.hour or first_time.date() != last_time.date()
SpansHours(times) == HourKey(times[1]) # HourKey(times[2])

\* editcap -i 3600 (lines 80-83): the hour-aligned pieces of a file, each named
\* by its first frame (editcap names a piece by its number and first timestamp)
Pieces(content) ==
    LET keys == {HourKey(e) : e \in content}
        piece(h) == {e \in content : HourKey(e) = h}
    IN  [n \in {Min(piece(h)) : h \in keys} |-> piece(HourKey(n))]

-----------------------------------------------------------------------------
\* The wall clock

Tick ==
    /\ clock < MaxClock
    /\ clock' = clock + 1
    /\ UNCHANGED <<stop_event, mainPc, rotPc, temp_file, cap, launches, tempDir,
                   splitExists, splitFiles, hourFiles, supPc, supExc, files, idx,
                   processed, stack, captured, created, handed, handLog, handedEvents, restarts>>

-----------------------------------------------------------------------------
\* run_tshark (lines 22-35) and the tshark process it starts

supVars == <<supPc, supExc, files, idx, processed, stack, handed, handLog, handedEvents,
             splitExists, splitFiles, hourFiles>>

\* a rotator whose loop never looks at stop_event
RotLoopForever == TRUE

\* line 24: while not stop_event.is_set()
RotLoopCond == ~stop_event

RotCheck ==
    /\ rotPc = "check"
    /\ RotLoopCond => Len(launches) < MaxLaunch
    /\ rotPc' = IF RotLoopCond THEN "launch" ELSE "done"
    /\ UNCHANGED <<clock, stop_event, mainPc, temp_file, cap, launches, tempDir,
                   captured, created, restarts>>
    /\ UNCHANGED supVars

\* line 25-26: the path of the next segment, from datetime.now()
NextPath == clock

\* lines 25-29
RotLaunch ==
    /\ rotPc = "launch"
    /\ temp_file' = NextPath
    /\ launches' = Append(launches, NextPath)
    /\ cap' = "started"
    /\ rotPc' = "wait"
    /\ UNCHANGED <<clock, stop_event, mainPc, tempDir, captured, created, restarts>>
    /\ UNCHANGED supVars

\* a rotator that leaves the wait loop without terminating the capture
NotReaped == cap

\* lines 32-34: proc.terminate() and proc.wait() when proc.poll() is None; the
\* capture process has exited afterwards
Reaped == "exited"

\* a rotator that clears the event once it has seen it
RotWaitClears ==
    /\ rotPc = "wait"
    /\ cap = "exited" \/ stop_event
    /\ cap' = "exited"
    /\ rotPc' = "check"
    /\ stop_event' = FALSE
    /\ UNCHANGED <<clock, mainPc, temp_file, launches, tempDir, captured, created,
                   restarts>>
    /\ UNCHANGED supVars

\* lines 30-35: the wait loop ends when the capture has exited or stop is set;
\* a capture that is still alive is then terminated and waited for
RotWait ==
    /\ rotPc = "wait"
    /\ cap = "exited" \/ stop_event
    /\ cap' = Reaped
    /\ rotPc' = "check"
    /\ UNCHANGED <<clock, stop_event, mainPc, temp_file, launches, tempDir,
                   captured, created, restarts>>
    /\ UNCHANGED supVars

\* tshark -w temp_file opens its output: the file is created, or truncated
CapOpen ==
    /\ cap = "started"
    /\ cap' = "writing"
    /\ tempDir' = Put(tempDir, temp_file, {})
    /\ created' = created \cup {temp_file}
    /\ UNCHANGED <<clock, stop_event, mainPc, rotPc, temp_file, launches, captured,
                   restarts>>
    /\ UNCHANGED supVars

\* tshark appends the frame of this tick to its output
CapWrite ==
    /\ cap = "writing"
    /\ clock \notin captured
    /\ captured' = captured \cup {clock}
    /\ tempDir' = IF temp_file \in DOMAIN tempDir
                  THEN [tempDir EXCEPT ![temp_file] = @ \cup {clock}]
                  ELSE tempDir
    /\ UNCHANGED <<clock, stop_event, mainPc, rotPc, temp_file, cap, launches,
                   created, restarts>>
    /\ UNCHANGED supVars

\* tshark exits by itself: its duration has elapsed, or it failed early
CapExit ==
    /\ cap \in {"started", "writing"}
    /\ cap' = "exited"
    /\ UNCHANGED <<clock, stop_event, mainPc, rotPc, temp_file, launches, tempDir,
                   captured, created, restarts>>
    /\ UNCHANGED supVars

Rotator == RotCheck \/ RotLaunch \/ RotWait
Capture == CapOpen \/ CapWrite \/ CapExit

-----------------------------------------------------------------------------
\* main (lines 131-156)

rotVars == <<rotPc, temp_file, cap, launches, tempDir, captured, created>>

\* lines 142-149: STOP is typed, or the interrupt arrives
MainStop ==
    /\ mainPc = "input"
    /\ stop_event' = TRUE
    /\ mainPc' = "joinTshark"
    /\ UNCHANGED <<clock, restarts>>
    /\ UNCHANGED rotVars
    /\ UNCHANGED supVars

\* line 152: tshark_proc.join()
MainJoinTshark ==
    /\ mainPc = "joinTshark"
    /\ rotPc = "done"
    /\ mainPc' = "joinSup"
    /\ UNCHANGED <<clock, stop_event, restarts>>
    /\ UNCHANGED rotVars
    /\ UNCHANGED supVars

\* line 154: sup_proc.join()
MainJoinSup ==
    /\ mainPc = "joinSup"
    /\ supPc = "dead"
    /\ mainPc' = "done"
    /\ UNCHANGED <<clock, stop_event, restarts>>
    /\ UNCHANGED rotVars
    /\ UNCHANGED supVars

Main == MainStop \/ MainJoinTshark \/ MainJoinSup

-----------------------------------------------------------------------------
\* supervisor_loop (lines 100-128)

notSup == <<clock, stop_event, mainPc, rotPc, temp_file, cap, launches, captured,
            created, restarts>>

\* a poll that does not skip the last file
AllFiles(fs) == fs

\* line 109: files[:-1]
NonLast(fs) == SubSeq(fs, 1, Len(fs) - 1)

\* An uncaught exception ends the supervisor process
Raise(exc) ==
    /\ supPc' = "dead"
    /\ supExc' = exc
    /\ stack' = <<>>

\* lines 104-107: the listing, and whether there is anything but the last file
SupList ==
    /\ supPc = "list"
    /\ files' = SortedSeq(DOMAIN tempDir)
    /\ idx' = 1
    /\ supPc' = IF Len(files') >= 2 THEN "loop" ELSE "exitcheck"
    /\ UNCHANGED <<supExc, processed, stack, handed, handLog, handedEvents, splitExists,
                   splitFiles, hourFiles, tempDir>>
    /\ UNCHANGED notSup

\* a loop that does not look at the processed set
AlwaysUnprocessed(f) == TRUE

\* line 111: temp_file not in processed
NotYetProcessed(f) == f \notin processed

\* lines 109-112: the next file of files[:-1]; one not yet processed is handed
\* to merge_temp_file
SupLoop ==
    /\ supPc = "loop"
    /\ LET todo == NonLast(files)
       IN  IF idx > Len(todo)
           THEN /\ supPc' = "exitcheck"
                /\ UNCHANGED <<idx, stack, handed, handLog, handedEvents>>
           ELSE IF ~NotYetProcessed(todo[idx])
           THEN /\ idx' = idx + 1
                /\ UNCHANGED <<supPc, stack, handed, handLog, handedEvents>>
           ELSE /\ supPc' = "call"
                /\ stack' = <<Frame("tmp", todo[idx])>>
                /\ handed' = handed \cup {todo[idx]}
                /\ handLog' = Append(handLog, todo[idx])
                /\ handedEvents' = handedEvents \cup
                       (IF todo[idx] \in DOMAIN tempDir THEN tempDir[todo[idx]] ELSE {})
                /\ UNCHANGED idx
    /\ UNCHANGED <<supExc, files, processed, splitExists, splitFiles, hourFiles,
                   tempDir>>
    /\ UNCHANGED notSup

\* line 113: merge_temp_file has returned
SupProcessed ==
    /\ supPc = "call"
    /\ stack = <<>>
    /\ processed' = processed \cup {NonLast(files)[idx]}
    /\ idx' = idx + 1
    /\ supPc' = "loop"
    /\ UNCHANGED <<supExc, files, stack, handed, handLog, handedEvents, splitExists,
                   splitFiles, hourFiles, tempDir>>
    /\ UNCHANGED notSup

\* line 116: stop_event.is_set() and (tshark_proc is None or not
\* tshark_proc.is_alive()).  tshark_proc is the Process object main created
\* and started (lines 135-138); the supervisor is another child of main, and
\* multiprocessing.Process.is_alive() asserts that its caller is the process
\* that started the object ("can only test a child process").  So once
\* stop_event is set the evaluation raises AssertionError in the supervisor,
\* and the sweep of lines 118-123 is never reached; while stop_event is not
\* set, is_alive() is not evaluated and the loop sleeps (125-128) and polls
\* again.  Either way files and the loop position are not read again: line
\* 104 assigns files anew.
ExitCheck == IF stop_event THEN "AssertionError" ELSE "poll"

SupExitCheck ==
    /\ supPc = "exitcheck"
    /\ IF ExitCheck = "poll"
       THEN /\ supPc' = "list"
            /\ UNCHANGED <<supExc, stack>>
       ELSE Raise(ExitCheck)
    /\ files' = <<>>
    /\ idx' = 1
    /\ UNCHANGED <<processed, handed, handLog, handedEvents, splitExists, splitFiles,
                   hourFiles, tempDir>>
    /\ UNCHANGED notSup

-----------------------------------------------------------------------------
\* merge_temp_file (lines 69-97) and safe_merge (lines 54-67)

inCall == supPc = "call" /\ stack # <<>>

\* an os.remove that is left out
KeepFile(loc, name) == UNCHANGED <<tempDir, splitFiles>>

RemoveFile(loc, name) ==
    /\ tempDir' = IF loc = "tmp" THEN Drop(tempDir, name) ELSE tempDir
    /\ splitFiles' = IF loc = "split" THEN Drop(splitFiles, name) ELSE splitFiles

\* an hour file that is always taken to be missing
HourFileNeverExists(key) == FALSE

\* line 93: os.path.exists(hour_file)
HourFileExists(key) == key \in DOMAIN hourFiles

\* an hour file that is created empty instead of from the segment
RenamedEmpty(content) == EmptyBag

\* line 96: os.rename(temp_file, hour_file): the hour file is the segment file
Renamed(content) == SetToBag(content)

\* lines 71-77 and 91-97: the timestamps; a file without frames is removed;
\* a file within one hour is renamed into place when its hour file does not
\* exist, and goes to safe_merge when it does; a file spanning hours is split
MtfStart ==
    /\ inCall
    /\ Top.pc = "start"
    /\ LET loc == Top.loc
           name == Top.name
           times == get_first_last_time(loc, name)
       IN  IF times = <<>>
           THEN IF FileExists(loc, name)
                THEN /\ RemoveFile(loc, name)
                     /\ stack' = Pop
                     /\ UNCHANGED <<supPc, supExc, hourFiles>>
                ELSE /\ Raise("FileNotFoundError")
                     /\ UNCHANGED <<tempDir, splitFiles, hourFiles>>
           ELSE IF SpansHours(times)
           THEN /\ stack' = SetTop([Top EXCEPT !.pc = "split"])
                /\ UNCHANGED <<supPc, supExc, tempDir, splitFiles, hourFiles>>
           ELSE IF HourFileExists(HourKey(times[1]))
           THEN /\ stack' = SetTop([Top EXCEPT !.pc = "safe_merge",
                                               !.key = HourKey(times[1])])
                /\ UNCHANGED <<supPc, supExc, tempDir, splitFiles, hourFiles>>
           ELSE /\ hourFiles' = Put(hourFiles, HourKey(times[1]),
                                    Renamed(Content(loc, name)))
                /\ RemoveFile(loc, name)
                /\ stack' = Pop
                /\ UNCHANGED <<supPc, supExc>>
    /\ UNCHANGED <<files, idx, processed, handed, handLog, handedEvents, splitExists>>
    /\ UNCHANGED notSup

\* lines 78-83, editcap exits with status 0: the pieces are in the split directory
EditcapOk ==
    /\ inCall
    /\ Top.pc = "split"
    /\ splitExists' = TRUE
    /\ LET new == Pieces(Content(Top.loc, Top.name))
       IN  splitFiles' = [n \in DOMAIN splitFiles \cup DOMAIN new |->
                              IF n \in DOMAIN new THEN new[n] ELSE splitFiles[n]]
    /\ stack' = SetTop([Top EXCEPT !.pc = "splitdone"])
    /\ UNCHANGED <<supPc, supExc, files, idx, processed, handed, handLog, handedEvents,
                   hourFiles, tempDir>>
    /\ UNCHANGED notSup

\* lines 78-83, editcap exits with a nonzero status: check=True raises
\* CalledProcessError, which nothing catches
EditcapFails ==
    /\ inCall
    /\ Top.pc = "split"
    /\ splitExists' = TRUE
    /\ Raise("CalledProcessError")
    /\ UNCHANGED <<files, idx, processed, handed, handLog, handedEvents, splitFiles,
                   hourFiles, tempDir>>
    /\ UNCHANGED notSup

\* lines 84-85: the file that was split is removed, the split directory listed
MtfRemoveOriginal ==
    /\ inCall
    /\ Top.pc = "splitdone"
    /\ RemoveFile(Top.loc, Top.name)
    /\ stack' = SetTop([Top EXCEPT !.pc = "subs",
                                   !.subs = SortedSeq(DOMAIN splitFiles')])
    /\ UNCHANGED <<supPc, supExc, files, idx, processed, handed, handLog, handedEvents,
                   splitExists, hourFiles>>
    /\ UNCHANGED notSup

\* lines 85-88: merge_temp_file on the next piece; after the last one the
\* split directory is removed with all it holds
MtfSubs ==
    /\ inCall
    /\ Top.pc = "subs"
    /\ IF Top.subs # <<>>
       THEN /\ stack' = Append(SetTop([Top EXCEPT !.subs = Tail(@)]),
                               Frame("split", Head(Top.subs)))
            /\ UNCHANGED <<splitExists, splitFiles>>
       ELSE /\ splitExists' = FALSE
            /\ splitFiles' = <<>>
            /\ stack' = Pop
    /\ UNCHANGED <<supPc, supExc, files, idx, processed, handed, handLog, handedEvents,
                   hourFiles, tempDir>>
    /\ UNCHANGED notSup

\* a retry loop that makes one attempt too many
RetryGuardOneMore(attempt) == attempt <= MERGE_RETRIES

\* line 57: for attempt in range(retries)
RetryGuard(attempt) == attempt < MERGE_RETRIES

\* line 59, mergecap exits with status 0: the hour file holds its frames and
\* those of temp_file
MergecapOk ==
    /\ inCall
    /\ Top.pc = "safe_merge"
    /\ RetryGuard(Top.attempt)
    /\ hourFiles' = [hourFiles EXCEPT ![Top.key] = @ (+) SetToBag(Content(Top.loc, Top.name))]
    /\ stack' = SetTop([Top EXCEPT !.pc = "merged", !.calls = @ + 1])
    /\ UNCHANGED <<supPc, supExc, files, idx, processed, handed, handLog, handedEvents,
                   splitExists, splitFiles, tempDir>>
    /\ UNCHANGED notSup

\* lines 59 and 63-65, mergecap exits with a nonzero status: the next attempt
MergecapFails ==
    /\ inCall
    /\ Top.pc = "safe_merge"
    /\ RetryGuard(Top.attempt)
    /\ stack' = SetTop([Top EXCEPT !.attempt = @ + 1, !.calls = @ + 1])
    /\ UNCHANGED <<supPc, supExc, files, idx, processed, handed, handLog, handedEvents,
                   splitExists, splitFiles, hourFiles, tempDir>>
    /\ UNCHANGED notSup

\* lines 66-67: the attempts are used up, safe_merge returns False
SafeMergeGiveUp ==
    /\ inCall
    /\ Top.pc = "safe_merge"
    /\ ~RetryGuard(Top.attempt)
    /\ stack' = SetTop([Top EXCEPT !.pc = "returned", !.result = "False"])
    /\ UNCHANGED <<supPc, supExc, files, idx, processed, handed, handLog, handedEvents,
                   splitExists, splitFiles, hourFiles, tempDir>>
    /\ UNCHANGED notSup

\* lines 60-62: after the merge temp_file is removed, safe_merge returns True
SafeMergeRemove ==
    /\ inCall
    /\ Top.pc = "merged"
    /\ RemoveFile(Top.loc, Top.name)
    /\ stack' = SetTop([Top EXCEPT !.pc = "returned", !.result = "True"])
    /\ UNCHANGED <<supPc, supExc, files, idx, processed, handed, handLog, handedEvents,
                   splitExists, hourFiles>>
    /\ UNCHANGED notSup

\* line 94: safe_merge's result is dropped and merge_temp_file returns
MtfReturn ==
    /\ inCall
    /\ Top.pc = "returned"
    /\ stack' = Pop
    /\ UNCHANGED <<supPc, supExc, files, idx, processed, handed, handLog, handedEvents,
                   splitExists, splitFiles, hourFiles, tempDir>>
    /\ UNCHANGED notSup

Supervisor ==
    \/ SupList \/ SupLoop \/ SupProcessed \/ SupExitCheck
    \/ MtfStart \/ EditcapOk \/ EditcapFails \/ MtfRemoveOriginal \/ MtfSubs
    \/ MergecapOk \/ MergecapFails \/ SafeMergeGiveUp \/ SafeMergeRemove \/ MtfReturn

-----------------------------------------------------------------------------
\* The program

Init ==
    /\ clock = 0
    /\ stop_event = FALSE
    /\ mainPc = "input"
    /\ rotPc = "check"
    /\ temp_file = 0
    /\ cap = "none"
    /\ launches = <<>>
    /\ tempDir = <<>>
    /\ splitExists = FALSE
    /\ splitFiles = <<>>
    /\ hourFiles = <<>>
    /\ supPc = "list"
    /\ supExc = "none"
    /\ files = <<>>
    /\ idx = 1
    /\ processed = {}
    /\ stack = <<>>
    /\ captured = {}
    /\ created = {}
    /\ handed = {}
    /\ handLog = <<>>
    /\ handedEvents = {}
    /\ restarts = 0

Next == Tick \/ Rotator \/ Capture \/ Main \/ Supervisor

Spec == Init /\ [][Next]_vars

\* The program is killed at any point (all its processes) and started again:
\* the files stay, everything in memory starts afresh
Restart ==
    /\ restarts < MaxRestarts
    /\ restarts' = restarts + 1
    /\ stop_event' = FALSE
    /\ mainPc' = "input"
    /\ rotPc' = "check"
    /\ temp_file' = 0
    /\ cap' = "none"
    /\ launches' = <<>>
    /\ supPc' = "list"
    /\ supExc' = "none"
    /\ files' = <<>>
    /\ idx' = 1
    /\ processed' = {}
    /\ stack' = <<>>
    /\ created' = {}
    /\ handed' = {}
    /\ handLog' = <<>>
    /\ UNCHANGED <<clock, tempDir, splitExists, splitFiles, hourFiles, captured,
                   handedEvents>>

NextRestart == Next \/ Restart

SpecRestart == Init /\ [][NextRestart]_vars

\* The scheduler runs each of the three processes when it can take a step
\* (for main: once its join can return), and each call of an external tool by
\* the supervisor returns
FairSpec ==
    /\ Spec
    /\ WF_vars(Rotator)
    /\ WF_vars(Supervisor)
    /\ WF_vars(MainJoinTshark \/ MainJoinSup)

-----------------------------------------------------------------------------
\* The claims

CapAlive == cap \in {"started", "writing"}

\* merge_temp_file is not running and the loop is between two files
PipelineIdle == supPc \in {"list", "loop", "exitcheck"}

InSomeHourFile(e) == \E h \in DOMAIN hourFiles : e \in InHourFile(h)

\* C1: no data loss.  Every frame of a segment that was handed to the merge
\* pipeline is still in a file of the working directory (or of the split
\* directory) or is in exactly one aggregate file: nothing is deleted without
\* a successful merge or rename of its frames.
C1_NoDataLoss ==
    \A e \in handedEvents :
        \/ e \in OnDisk
        \/ /\ InSomeHourFile(e)
           /\ \A h1, h2 \in DOMAIN hourFiles :
                  e \in InHourFile(h1) /\ e \in InHourFile(h2) => h1 = h2

\* C2: drain on shutdown.  Once stop is set, the rotator has stopped and the
\* supervisor has ended, every segment file a capture of this run created has
\* been handed to merge_temp_file.
C2_DrainOnShutdown ==
    stop_event /\ rotPc = "done" /\ supPc = "dead" => created \subseteq handed

\* C3: no segment is merged before it is fully written.  While merge_temp_file
\* is running on a segment of the working directory, no live capture process
\* has that segment as its output.
C3_NoMergeWhileWriting ==
    stack # <<>> /\ stack[1].loc = "tmp" => ~(CapAlive /\ temp_file = stack[1].name)

\* C3's case: merge_temp_file runs on an older segment while a capture is writing
C3_Witness ==
    /\ stack # <<>>
    /\ stack[1].loc = "tmp"
    /\ cap = "writing"
    /\ temp_file # stack[1].name
    /\ temp_file \in DOMAIN tempDir

\* C4: no duplication across failures and restarts.  No aggregate file holds a
\* frame more than once, and no frame is in two aggregate files.
C4_NoDuplication ==
    \A h \in DOMAIN hourFiles : \A e \in BagToSet(hourFiles[h]) :
        /\ CopiesIn(e, hourFiles[h]) <= 1
        /\ \A h2 \in DOMAIN hourFiles : e \in InHourFile(h2) => h2 = h

\* C5: retry bound.  When safe_merge returns True, mergecap failed attempt
\* times (fewer than MERGE_RETRIES), was invoked attempt + 1 times, and the
\* segment is gone; before the segment is removed its frames are in the hour
\* file.  When safe_merge returns False, mergecap was invoked exactly
\* MERGE_RETRIES times, failed each time, and the segment is still on disk.
C5_RetryBound ==
    \A i \in 1..Len(stack) :
        LET fr == stack[i] IN
        /\ fr.pc = "merged" =>
               /\ FileExists(fr.loc, fr.name)
               /\ Content(fr.loc, fr.name) \subseteq InHourFile(fr.key)
        /\ fr.pc = "returned" /\ fr.result = "True" =>
               /\ fr.attempt < MERGE_RETRIES
               /\ fr.calls = fr.attempt + 1
               /\ ~FileExists(fr.loc, fr.name)
        /\ fr.pc = "returned" /\ fr.result = "False" =>
               /\ fr.attempt = MERGE_RETRIES
               /\ fr.calls = MERGE_RETRIES
               /\ FileExists(fr.loc, fr.name)

\* C5's case: safe_merge has returned False after all its attempts
C5_Witness ==
    /\ stack # <<>>
    /\ Top.pc = "returned"
    /\ Top.result = "False"
    /\ Top.calls = MERGE_RETRIES

\* C6 as stated: bucket correctness.  When merge_temp_file is not running,
\* every frame of every segment handed to it is in the aggregate file of its
\* own hour key and in no other aggregate file.
C6_BucketCorrectness ==
    PipelineIdle =>
        \A e \in handedEvents :
            /\ e \in InHourFile(HourKey(e))
            /\ \A h \in DOMAIN hourFiles : e \in InHourFile(h) => h = HourKey(e)

\* C6 as amended: every frame held by an aggregate file is held by the file
\* of its own hour key, and by no other.
C6_NoFrameInWrongBucket ==
    \A h \in DOMAIN hourFiles : \A e \in InHourFile(h) : HourKey(e) = h

\* C6's case: a segment spanning two hours was split and each piece went into
\* the aggregate file of its hour
C6_Witness ==
    /\ stack # <<>>
    /\ stack[1].pc = "subs"
    /\ stack[1].subs = <<>>
    /\ splitFiles = <<>>
    /\ \E h1, h2 \in DOMAIN hourFiles :
           /\ h1 # h2
           /\ \E e1 \in InHourFile(h1), e2 \in InHourFile(h2) :
                  e2 = e1 + 1 /\ {e1, e2} \subseteq handedEvents

\* C7: failure isolation.  No failure inside merge_temp_file (of mergecap, of
\* editcap, of reading a segment) ends the supervisor loop.
C7_FailureIsolation ==
    supExc \notin {"CalledProcessError", "FileNotFoundError"}

\* C8: shutdown ordering.  The supervisor leaves its loop at the exit check
\* only after the rotator has fully stopped, and main exits only after both
\* have ended.
C8_ShutdownOrder ==
    /\ supPc = "dead" /\ supExc = "AssertionError" => rotPc = "done"
    /\ mainPc = "done" => rotPc = "done" /\ supPc = "dead"

\* C9: graceful termination.  Once stop is set, under fair scheduling the
\* rotator stops, the supervisor leaves its loop and main exits.
C9_Termination ==
    stop_event ~> (rotPc = "done" /\ supPc = "dead" /\ mainPc = "done")

\* C9's case: stop was set while a capture was running and a segment was
\* waiting, and all three have ended
C9_Witness ==
    /\ stop_event
    /\ mainPc = "done"
    /\ rotPc = "done"
    /\ supPc = "dead"
    /\ Len(launches) >= 2
    /\ clock > 0

\* C10: unique segment paths.  The output paths of the captures launched in one
\* run increase strictly with the launch order.
C10_UniquePaths ==
    \A i, j \in 1..Len(launches) : i < j => launches[i] < launches[j]

\* C11: first segment of a bucket.  When the supervisor processes a segment
\* that has events, lies within one hour and finds no hour file for its key,
\* the step moves it into place without going through safe_merge: afterwards
\* the hour file holds exactly the segment's events, once each, and the segment
\* is gone from its directory.  An hour file never appears in any other way.
C11_FirstSegmentMoved ==
    [][/\ \A k \in (DOMAIN hourFiles') \ DOMAIN hourFiles :
              /\ inCall
              /\ Top.pc = "start"
              /\ get_first_last_time(Top.loc, Top.name) # <<>>
              /\ k = HourKey(get_first_last_time(Top.loc, Top.name)[1])
       /\ LET loc == Top.loc
              name == Top.name
              times == get_first_last_time(loc, name)
              content == Content(loc, name)
          IN  (/\ inCall
               /\ Top.pc = "start"
               /\ times # <<>>
               /\ ~SpansHours(times)
               /\ HourKey(times[1]) \notin DOMAIN hourFiles
               /\ stack' # stack)
              => /\ Top.calls = 0
                 /\ stack' = Pop
                 /\ hourFiles' = Put(hourFiles, HourKey(times[1]), SetToBag(content))
                 /\ IF loc = "tmp"
                    THEN name \notin DOMAIN tempDir'
                    ELSE name \notin DOMAIN splitFiles'
      ]_vars

\* C11's case: the first segment handed over had events of one hour, its call
\* has returned, the hour file holds exactly those events and the segment is
\* gone from the temp directory
C11_Witness ==
    /\ supPc = "call"
    /\ stack = <<>>
    /\ Len(handLog) = 1
    /\ handLog[1] \notin DOMAIN tempDir
    /\ handedEvents # {}
    /\ ~splitExists
    /\ \E k \in DOMAIN hourFiles : hourFiles[k] = SetToBag(handedEvents)

\* C12: supervisor exit condition.  The supervisor process has ended only if
\* stop is set and the rotator has fully stopped.
C12_ExitOnlyAfterRotator ==
    supPc = "dead" => stop_event /\ rotPc = "done"

\* C13: split cleanup.  Whenever no call of merge_temp_file is in progress, the
\* split directory does not exist.
C13_SplitDirRemoved ==
    stack = <<>> => ~splitExists

\* C14: at most once per run.  No segment path is handed to merge_temp_file
\* twice by the supervisor loop, also when the segment is still in the temp
\* directory after its call.
C14_HandedAtMostOnce ==
    \A i, j \in 1..Len(handLog) : i # j => handLog[i] # handLog[j]

\* C14's case: a new poll starts its loop at a segment that was handed over in
\* an earlier poll and is still there with its events
C14_Witness ==
    /\ supPc = "loop"
    /\ idx = 1
    /\ Len(files) >= 2
    /\ files[1] \in processed
    /\ files[1] \in DOMAIN tempDir
    /\ tempDir[files[1]] # {}
    /\ \E i \in 1..Len(handLog) : handLog[i] = files[1]

\* C15: processing order.  The paths handed to merge_temp_file increase
\* strictly in the order of the calls, and an hour file holds the earliest
\* handed event of its hour.
C15_CreationOrder ==
    /\ \A i, j \in 1..Len(handLog) : i < j => handLog[i] < handLog[j]
    /\ \A h \in DOMAIN hourFiles :
           LET mine == {e \in handedEvents : HourKey(e) = h}
           IN  mine # {} => Min(mine) \in InHourFile(h)

\* C15's case: two segments of one hour were handed over one after the other
\* and the hour file holds the events of both
C15_Witness ==
    /\ Len(handLog) >= 2
    /\ stack = <<>>
    /\ \E h \in DOMAIN hourFiles :
           /\ Cardinality(InHourFile(h)) >= 2
           /\ InHourFile(h) \subseteq handedEvents

\* C16: hour files are append-only.  An hour file that exists keeps existing
\* under its key, and every event in it stays in it, as many times as before.
C16_AppendOnly ==
    [][\A h \in DOMAIN hourFiles :
           /\ h \in DOMAIN hourFiles'
           /\ hourFiles[h] \sqsubseteq hourFiles'[h]]_vars

\* C16's case: mergecap has just rewritten an existing hour file, which now
\* holds more than one event
C16_Witness ==
    /\ inCall
    /\ Top.pc = "merged"
    /\ Top.key \in DOMAIN hourFiles
    /\ BagCardinality(hourFiles[Top.key]) >= 2

\* C17: single-slot rotation.  Whenever the rotator is at the head of its loop,
\* is about to launch, or has stopped, no capture process is alive: the next
\* capture is launched only after the previous one exited, and the rotator
\* stops only after the active capture was terminated and waited for.
C17_SingleSlot ==
    rotPc \in {"check", "launch", "done"} => ~CapAlive

\* C17's case: stop was set during the second capture or later, the rotator has
\* left its wait loop and is back at the head of the loop
C17_Witness ==
    /\ stop_event
    /\ rotPc = "check"
    /\ cap = "exited"
    /\ Len(launches) >= 2

\* C18: discard of empty and unreadable segments.  When the supervisor
\* processes an existing segment for which get_first_last_time finds no
\* timestamps, the step deletes the segment and returns: no hour file is
\* created or changed, the split directory is not touched and safe_merge is not
\* entered.
C18_DiscardEmpty ==
    [][LET loc == Top.loc
           name == Top.name
       IN  (/\ inCall
            /\ Top.pc = "start"
            /\ get_first_last_time(loc, name) = <<>>
            /\ FileExists(loc, name)
            /\ stack' # stack)
           => /\ stack' = Pop
              /\ supPc' = supPc
              /\ hourFiles' = hourFiles
              /\ splitExists' = splitExists
              /\ IF loc = "tmp"
                 THEN /\ name \notin DOMAIN tempDir'
                      /\ splitFiles' = splitFiles
                 ELSE /\ name \notin DOMAIN splitFiles'
                      /\ tempDir' = tempDir
      ]_vars

\* C18's case: every segment handed over so far was empty, the last call has
\* returned, the segment is gone and there is no hour file
C18_Witness ==
    /\ supPc = "call"
    /\ stack = <<>>
    /\ handLog # <<>>
    /\ handLog[Len(handLog)] \notin DOMAIN tempDir
    /\ handedEvents = {}
    /\ hourFiles = <<>>
    /\ ~splitExists

\* C19: the stop signal is monotonic.  stop_event starts unset, no step unsets
\* it, and the only step that sets it is main's, taken from its input loop.
C19_StopMonotonic ==
    /\ ~stop_event
    /\ [][/\ stop_event => stop_event'
          /\ stop_event' # stop_event => mainPc = "input" /\ mainPc' # "input"]_vars

\* C19's case: stop was set, and the rotator and the supervisor have both run
\* to their end with it still set
C19_Witness ==
    /\ stop_event
    /\ rotPc = "done"
    /\ supPc = "dead"
    /\ mainPc = "joinSup"

\* C20: no launch after stop.  No step launches a capture in a state where
\* stop_event is already set.
C20_NoLaunchAfterStop ==
    [][launches' # launches => ~stop_event]_vars

=============================================================================
